---------------------------- MODULE Spec2Model ----------------------------
(***************************************************************************)
(* A model of the k-nearest-neighbour classifier of src/src/knn.rs, its    *)
(* kernels (src/src/kernel.rs), its metrics (src/src/distance_metric.rs    *)
(* and the kiddo metrics Manhattan and SquaredEuclidean) and the           *)
(* leave-one-out reweighter of src/src/lowess.rs.                          *)
(*                                                                         *)
(* Numbers.  Coordinates, radius and metric-native distances are small     *)
(* integers, which f64 represents exactly.  Every other f64 (a square      *)
(* root, a quotient, a kernel value, a weight, a score) is a fixed-point   *)
(* number: the integer v stands for v / SCALE, and every operation rounds  *)
(* down to that grid as f64 rounds to its own.  NaN and Inf are the two    *)
(* IEEE values a division by zero produces.                                *)
(***************************************************************************)
EXTENDS Integers, Sequences, FiniteSets

\* ------------------------------------------------------------------ bounds
\* largest coordinate of a feature
MaxCoord == 3
\* largest neighbour count k a classifier is built with
MaxK == 2
\* largest radius a classifier is built with
MaxRadius == 2
\* most samples one fit call is given
MaxSamples == 2
\* longest weights vector a fit call is given
MaxWeights == 2
\* most entries the index is let grow to (fit never removes any)
MaxTree == 2
\* most samples lowess is given
MaxTrain == 2

\* --------------------------------------------------------------- constants
\* pub const DIMENSIONS (30 in the source, scaled down)
DIMENSIONS == 1

\* one unit of the fixed-point grid standing for f64
SCALE == 1000
NaN == -1
Inf == -2

\* 1.0, 0.5 and 0.75 on the grid
ONE == SCALE
HALF == SCALE \div 2
THREE_QUARTERS == (3 * SCALE) \div 4
\* 1.0 / (2.0 * PI).sqrt() = 0.39894... on the grid
INV_SQRT_2PI == 399

\* enum Diagnosis { Malignant, Benign }
Diagnosis == {"Malignant", "Benign"}
\* enum WindowType { Fixed, Unfixed }
WindowType == {"Fixed", "Unfixed"}
\* the four fn(f64) -> f64 of kernel.rs
KernelNames == {"uniform", "triangular", "epanechnikov", "gaussian"}
\* the three DistanceMetric implementations main.rs instantiates Knn with
MetricNames == {"Manhattan", "SquaredEuclidean", "Chebyshev"}

\* [f64; DIMENSIONS]
Features == [1..DIMENSIONS -> 0..MaxCoord]
\* struct Data { features, label }
Data == [features : Features, label : Diagnosis]

\* ------------------------------------------------------------- f64 helpers
IsNaN(a) == a = NaN
Finite(a) == a >= 0

Abs(a) == IF a < 0 THEN -a ELSE a
Max(a, b) == IF a >= b THEN a ELSE b
Min(a, b) == IF a <= b THEN a ELSE b

\* a / b on f64: 0/0 is NaN, x/0 is Inf for x > 0
FDiv(a, b) ==
    IF IsNaN(a) \/ IsNaN(b) THEN NaN
    ELSE IF b = 0 THEN (IF a = 0 THEN NaN ELSE Inf)
    ELSE IF a = Inf THEN Inf
    ELSE (a * SCALE) \div b

\* a * b on f64, for a kernel value (finite or NaN) and a finite weight
FMul(a, b) ==
    IF IsNaN(a) \/ IsNaN(b) THEN NaN
    ELSE (a * b) \div SCALE

\* a + b on f64
FAdd(a, b) ==
    IF IsNaN(a) \/ IsNaN(b) THEN NaN ELSE a + b

\* f64::partial_cmp: None when either side is NaN
PartialCmp(a, b) ==
    IF IsNaN(a) \/ IsNaN(b) THEN "None"
    ELSE IF a < b THEN "Less"
    ELSE IF a > b THEN "Greater"
    ELSE "Equal"

\* the largest metric-native distance two features can have
MaxNative == DIMENSIONS * MaxCoord * MaxCoord

\* f64::sqrt of an integer n, on the grid: floor(sqrt(n) * SCALE)
SqrtTable ==
    [n \in 0..MaxNative |->
        CHOOSE r \in 0..(MaxCoord * DIMENSIONS * SCALE) :
            /\ r * r <= n * SCALE * SCALE
            /\ (r + 1) * (r + 1) > n * SCALE * SCALE]

FSqrt(n) == SqrtTable[n]

\* ----------------------------------------------------------------- metrics
RECURSIVE SumAbs(_, _, _)
SumAbs(a, b, i) ==
    IF i = 0 THEN 0 ELSE Abs(a[i] - b[i]) + SumAbs(a, b, i - 1)

RECURSIVE SumSq(_, _, _)
SumSq(a, b, i) ==
    IF i = 0 THEN 0
    ELSE (a[i] - b[i]) * (a[i] - b[i]) + SumSq(a, b, i - 1)

RECURSIVE MaxAbs(_, _, _)
MaxAbs(a, b, i) ==
    IF i = 0 THEN 0 ELSE Max(MaxAbs(a, b, i - 1), Abs(a[i] - b[i]))

\* kiddo::Manhattan::dist
ManhattanDist(a, b) == SumAbs(a, b, DIMENSIONS)
\* kiddo::SquaredEuclidean::dist
SquaredEuclideanDist(a, b) == SumSq(a, b, DIMENSIONS)
\* Chebyshev::dist: fold(zero, max) over |a - b|
ChebyshevDist(a, b) == MaxAbs(a, b, DIMENSIONS)

\* M::dist for the metric the classifier is instantiated with
Dist(m, a, b) ==
    CASE m = "Manhattan" -> ManhattanDist(a, b)
      [] m = "SquaredEuclidean" -> SquaredEuclideanDist(a, b)
      [] m = "Chebyshev" -> ChebyshevDist(a, b)

\* ----------------------------------------------------------------- kernels
\* every comparison with NaN is false, so the else branch is taken
uniform(distance) ==
    IF Finite(distance) /\ distance < ONE THEN HALF ELSE 0

triangular(distance) ==
    IF Finite(distance) /\ Abs(distance) < ONE
    THEN ONE - Abs(distance) ELSE 0

epanechnikov(distance) ==
    IF Finite(distance) /\ Abs(distance) < ONE
    THEN ((ONE - (distance * distance) \div SCALE) * THREE_QUARTERS) \div SCALE
    ELSE 0

\* exp(-x) for x >= 0 on the grid, by its series to the fourth power
ExpNeg(x) ==
    LET t2 == (x * x) \div (2 * SCALE)
        t3 == (t2 * x) \div (3 * SCALE)
        t4 == (t3 * x) \div (4 * SCALE)
    IN  Max(0, SCALE - x + t2 - t3 + t4)

gaussian(distance) ==
    IF IsNaN(distance) THEN NaN
    ELSE IF distance = Inf THEN 0
    ELSE (INV_SQRT_2PI * ExpNeg(((distance * distance) \div SCALE) \div 2)) \div SCALE

\* (self.kernel)(dist)
Kernel(name, distance) ==
    CASE name = "uniform" -> uniform(distance)
      [] name = "triangular" -> triangular(distance)
      [] name = "epanechnikov" -> epanechnikov(distance)
      [] name = "gaussian" -> gaussian(distance)


\* ------------------------------------------------------------------- state
VARIABLES
    k,          \* Knn.k
    radius,     \* Knn.radius (a whole number, as main.rs passes it)
    kernel,     \* Knn.kernel, by name
    window,     \* Knn.window
    metric,     \* the type parameter M of Knn<M>
    kd_tree,    \* Knn.kd_tree: the entries added, in insertion order
    data,       \* Knn.data
    weights,    \* Knn.weights
    fitted,     \* history: fit has been called on this classifier
    last,       \* the outcome of the latest fit or predict call
    train_data, \* lowess: the train_data argument
    lw_i,       \* lowess: the loop index i
    lw_weights, \* lowess: the weights vector being built
    lw_preds,   \* history: the outcome of each held-out predict
    lw_pc       \* lowess: "idle", "loop", "done" or "panic"

knn_vars == <<k, radius, kernel, window, metric, kd_tree, data, weights, fitted, last>>
lw_vars == <<train_data, lw_i, lw_weights, lw_preds, lw_pc>>
vars == <<k, radius, kernel, window, metric, kd_tree, data, weights, fitted, last,
          train_data, lw_i, lw_weights, lw_preds, lw_pc>>

\* all sequences over S of length at most n
SeqsUpTo(S, n) == UNION {[1..m -> S] : m \in 0..n}

\* vec![1.0; n]
Ones(n) == [i \in 1..n |-> ONE]

\* ------------------------------------------------------- the spatial index
\* KdTree::add(&features, idx): one more entry; nothing is ever replaced
TreeAdd(tree, features, idx) ==
    Append(tree, [point |-> features, item |-> idx])

\* the entries of the tree as kiddo reports them for a query x:
\* (M::dist(x, point), item), ascending by distance.  Entries at equal
\* distance come in the order of the tree's traversal, a fixed function of
\* the tree and the query; the model takes the insertion order.
Ranked(m, tree, x) ==
    LET n == Len(tree)
        d(i) == Dist(m, x, tree[i].point)
        rank(i) == 1 + Cardinality({j \in 1..n :
                        d(j) < d(i) \/ (d(j) = d(i) /\ j < i)})
    IN  [r \in 1..n |->
            LET i == CHOOSE j \in 1..n : rank(j) = r
            IN  [distance |-> d(i), item |-> tree[i].item]]

\* KdTree::within::<M>(x, dist): every entry with M::dist < dist, sorted.
\* The threshold and the distances are in the metric's own (native) space;
\* an entry exactly at the threshold is not returned.
Within(m, tree, x, dist) ==
    SelectSeq(Ranked(m, tree, x), LAMBDA e : e.distance < dist)

\* KdTree::nearest_n::<M>(x, qty): the qty nearest entries (all of them when
\* the tree holds fewer), sorted
NearestN(m, tree, x, qty) ==
    LET all == Ranked(m, tree, x)
    IN  SubSeq(all, 1, Min(qty, Len(all)))

\* -------------------------------------------------------------- Knn::predict
\* the classifier as one value: the fields of struct Knn<M>
KnnOf(k_, radius_, kernel_, window_, metric_, tree_, data_, weights_) ==
    [k |-> k_, radius |-> radius_, kernel |-> kernel_, window |-> window_,
     metric |-> metric_, kd_tree |-> tree_, data |-> data_, weights |-> weights_]

\* predict_with_neighbors, lines 98-104: the neighbours the index returns,
\* with their metric-native distance
Neighbours(self, x) ==
    IF self.window = "Fixed"
    THEN Within(self.metric, self.kd_tree, x, self.radius * self.radius)
    ELSE NearestN(self.metric, self.kd_tree, x, self.k)

\* lines 110-122: distances divided by the radius, or by the last distance
Adjust(self, distances) ==
    IF self.window = "Fixed"
    THEN [i \in 1..Len(distances) |-> FDiv(distances[i], self.radius * SCALE)]
    ELSE [i \in 1..Len(distances) |->
            FDiv(distances[i], distances[Len(distances)])]

\* the record predict_with_neighbors leaves behind.  panic names the place
\* the call aborts at, "" when it returns.
Retrieved(native, indices) ==
    [panic |-> "", native |-> native, indices |-> indices,
     adjusted |-> <<>>, kernel_distances |-> <<>>,
     targets |-> <<>>, weights |-> <<>>]

\* the positions whose self.data[index] or self.weights[index] is out of
\* bounds
OutOfBounds(self, indices) ==
    {i \in 1..Len(indices) : indices[i] >= Len(self.data)
                             \/ indices[i] >= Len(self.weights)}

\* lines 124-134: targets, weights and kernel values of the neighbours
Collect(self, base, adjusted, bad) ==
    IF bad # {}
    THEN LET i == CHOOSE j \in bad : \A j2 \in bad : j <= j2
         IN  [base EXCEPT
                !.adjusted = adjusted,
                !.panic = IF base.indices[i] >= Len(self.data)
                          THEN "data_index" ELSE "weights_index"]
    ELSE [base EXCEPT
            !.adjusted = adjusted,
            !.targets = [i \in 1..Len(adjusted) |->
                            self.data[base.indices[i] + 1].label],
            !.weights = [i \in 1..Len(adjusted) |->
                            self.weights[base.indices[i] + 1]],
            !.kernel_distances = [i \in 1..Len(adjusted) |->
                                    Kernel(self.kernel, adjusted[i])]]

\* lines 98-122, given the neighbours nb the index returned
Normalise(self, nb) ==
    IF self.window = "Unfixed" /\ Len(nb) = 0
    THEN \* adjusted_distances.last().unwrap() on an empty vector
         [Retrieved(<<>>, <<>>) EXCEPT !.panic = "last_unwrap"]
    ELSE Collect(self,
                 Retrieved([i \in 1..Len(nb) |-> nb[i].distance],
                           [i \in 1..Len(nb) |-> nb[i].item]),
                 Adjust(self, [i \in 1..Len(nb) |-> FSqrt(nb[i].distance)]),
                 OutOfBounds(self, [i \in 1..Len(nb) |-> nb[i].item]))

predict_with_neighbors(self, x) == Normalise(self, Neighbours(self, x))

\* class_scores[label] after the loop of predict_class
RECURSIVE ScoreOf(_, _, _, _, _)
ScoreOf(label, kernel_distances, targets, ws, i) ==
    IF i = 0 THEN 0
    ELSE LET rest == ScoreOf(label, kernel_distances, targets, ws, i - 1)
         IN  IF targets[i] = label
             THEN FAdd(rest, FMul(kernel_distances[i], ws[i]))
             ELSE rest

\* the scores with every neighbour's weight taken as 1.0
ClassScoresUnweighted(kernel_distances, targets, ws) ==
    [label \in {targets[i] : i \in 1..Len(targets)} |->
        ScoreOf(label, kernel_distances, targets, Ones(Len(ws)), Len(targets))]

ClassScores(kernel_distances, targets, ws) ==
    [label \in {targets[i] : i \in 1..Len(targets)} |->
        ScoreOf(label, kernel_distances, targets, ws, Len(targets))]

\* the orders a HashMap with these keys may be iterated in: std's HashMap
\* seeds its hasher afresh for every map, so any order can come up
IterationOrders(keys) ==
    {o \in [1..Cardinality(keys) -> keys] :
        \A i, j \in 1..Cardinality(keys) : i # j => o[i] # o[j]}

\* Iterator::max_by over the entries in the order o: the fold keeps the
\* accumulator only when the comparison says Greater; partial_cmp(..).unwrap()
\* aborts on None.  "" stands for the abort.
RECURSIVE MaxBy(_, _, _)
MaxBy(scores, o, i) ==
    IF i = 1 THEN o[1]
    ELSE LET acc == MaxBy(scores, o, i - 1)
         IN  IF acc = "" THEN ""
             ELSE LET c == PartialCmp(scores[acc], scores[o[i]])
                  IN  IF c = "None" THEN ""
                      ELSE IF c = "Greater" THEN acc ELSE o[i]

\* predict_class: the labels it can return, "" for the abort
predict_class(kernel_distances, targets, ws) ==
    LET scores == ClassScores(kernel_distances, targets, ws)
    IN  {MaxBy(scores, o, Len(o)) : o \in IterationOrders(DOMAIN scores)}

\* the outcome of a call that has not happened
NoCall ==
    [op |-> "none", x |-> <<>>, status |-> "ok", label |-> "", panic |-> "",
     native |-> <<>>, indices |-> <<>>, adjusted |-> <<>>,
     kernel_distances |-> <<>>, scores |-> <<>>,
     mismatch |-> FALSE]

\* what a predict call on x leaves to be seen, r being the result of
\* predict_with_neighbors
Seen(x, r) ==
    [NoCall EXCEPT !.op = "predict", !.x = x,
        !.native = r.native, !.indices = r.indices,
        !.adjusted = r.adjusted, !.kernel_distances = r.kernel_distances]

\* lines 71-72: predict_class is called and its label returned
Vote(seen, scores, classes) ==
    {IF c = ""
     THEN [seen EXCEPT !.status = "panic", !.panic = "partial_cmp",
                       !.scores = scores]
     ELSE [seen EXCEPT !.label = c, !.scores = scores] : c \in classes}

\* lines 67-72, given the result r of predict_with_neighbors
Decide(x, r) ==
    IF r.panic # ""
    THEN {[Seen(x, r) EXCEPT !.status = "panic", !.panic = r.panic]}
    ELSE IF Len(r.targets) = 0 \/ Len(r.weights) = 0
    THEN {[Seen(x, r) EXCEPT !.status = "err"]}
    ELSE Vote(Seen(x, r),
              ClassScores(r.kernel_distances, r.targets, r.weights),
              predict_class(r.kernel_distances, r.targets, r.weights))

\* Knn::predict: every outcome the call can have.  status is "ok" with a
\* label, "err" for Err("no neighbors found for prediction"), or "panic".
predict(self, x) == Decide(x, predict_with_neighbors(self, x))

\* ------------------------------------------------------------------ Knn::fit
\* the weights argument of fit: None, or Some(vector)
None == [some |-> FALSE, v |-> <<>>]
Some(v) == [some |-> TRUE, v |-> v]

\* the weights a caller passes: 0.0 and 1.0
WeightValues == {0, ONE}
WeightArgs == {None} \cup {Some(v) : v \in SeqsUpTo(WeightValues, MaxWeights)}

\* lines 59-61: every sample is added to the tree under its position; the
\* tree is not cleared first
RECURSIVE AddAll(_, _, _)
AddAll(tree, samples, n) ==
    IF n = 0 THEN tree
    ELSE TreeAdd(AddAll(tree, samples, n - 1), samples[n].features, n - 1)

\* Knn::fit: the classifier after the call.  There is no check of the
\* weights' length and no failure result.
fit(self, samples, w) ==
    [self EXCEPT
        !.data = samples,
        !.weights = IF w.some THEN w.v ELSE Ones(Len(samples)),
        !.kd_tree = AddAll(self.kd_tree, samples, Len(samples))]

\* Knn::new: nothing is checked; the tree, data and weights are empty
new(k_, radius_, window_, kernel_, metric_) ==
    KnnOf(k_, radius_, kernel_, window_, metric_, <<>>, <<>>, <<>>)

\* ------------------------------------------------------------ the classifier
Self == KnnOf(k, radius, kernel, window, metric, kd_tree, data, weights)

\* the hyperparameters Knn::new is given.  radius is read under Fixed only
\* (lines 99 and 114) and k under Unfixed only (line 100), so the parameter
\* the window does not read is held at 1.
Hyperparameters ==
    /\ window \in WindowType
    /\ IF window = "Fixed"
       THEN radius \in 0..MaxRadius /\ k = 1
       ELSE k \in 0..MaxK /\ radius = 1
    /\ kernel \in KernelNames
    /\ metric \in MetricNames

\* a classifier fresh from Knn::new, with any hyperparameters
Init ==
    /\ Hyperparameters
    /\ kd_tree = <<>>
    /\ data = <<>>
    /\ weights = <<>>
    /\ fitted = FALSE
    /\ last = NoCall
    /\ train_data = <<>>
    /\ lw_i = 0
    /\ lw_weights = <<>>
    /\ lw_preds = <<>>
    /\ lw_pc = "idle"

\* a panic ends the process
Running == last.status # "panic"

\* knn.fit(samples, w)
Fit ==
    /\ Running
    /\ \E n \in 0..Min(MaxSamples, MaxTree - Len(kd_tree)) :
       \E samples \in [1..n -> Data], w \in WeightArgs :
        /\ LET after == fit(Self, samples, w)
           IN  /\ kd_tree' = after.kd_tree
               /\ data' = after.data
               /\ weights' = after.weights
        /\ fitted' = TRUE
        /\ last' = [NoCall EXCEPT !.op = "fit",
                        !.mismatch = w.some /\ Len(w.v) # Len(samples)]
    /\ UNCHANGED <<k, radius, kernel, window, metric>>
    /\ UNCHANGED lw_vars

\* a predict that takes the weights out of the classifier as it reads them
PredictTakingWeights ==
    /\ Running
    /\ \E x \in Features :
        \E o \in predict(Self, x) : last' = o
    /\ weights' = <<>>
    /\ UNCHANGED <<k, radius, kernel, window, metric, kd_tree, data, fitted>>
    /\ UNCHANGED lw_vars

\* knn.predict(&x): takes &self, so no field changes
Predict ==
    /\ Running
    /\ \E x \in Features :
        \E o \in predict(Self, x) : last' = o
    /\ UNCHANGED <<k, radius, kernel, window, metric, kd_tree, data, weights, fitted>>
    /\ UNCHANGED lw_vars

Next == Fit \/ Predict

Spec == Init /\ [][Next]_vars

\* -------------------------------------------------------------------- lowess
\* Vec::remove(i), i counted from 0
Remove(v, i) ==
    [j \in 1..(Len(v) - 1) |-> IF j <= i THEN v[j] ELSE v[j + 1]]

\* lines 16-26: the classifier of iteration i, fitted on train_data without
\* position i, weights None
HeldOutKnn(i) ==
    fit(new(k, radius, window, kernel, metric), Remove(train_data, i), None)

\* the two kernel arguments the wrong way round
LowessWeightSwapped(o, label) ==
    IF o.status = "ok"
    THEN (IF o.label = label THEN Kernel(kernel, ONE) ELSE Kernel(kernel, 0))
    ELSE 0

\* lines 29-37: the weight pushed for an outcome of the held-out predict
LowessWeight(o, label) ==
    IF o.status = "ok"
    THEN (IF o.label = label THEN Kernel(kernel, 0) ELSE Kernel(kernel, ONE))
    ELSE 0

\* lowess(neighbour_amount, radius, window_type, kernel, train_data) is called
InitLowess ==
    /\ Hyperparameters
    /\ train_data \in SeqsUpTo(Data, MaxTrain)
    /\ lw_i = 0
    /\ lw_weights = <<>>
    /\ lw_preds = <<>>
    /\ lw_pc = "loop"
    /\ kd_tree = <<>>
    /\ data = <<>>
    /\ weights = <<>>
    /\ fitted = FALSE
    /\ last = NoCall

\* one iteration of the for loop: build, fit, predict, push.  The
\* classifier variables show knn_instance as the iteration leaves it.
LowessStep ==
    /\ lw_pc = "loop"
    /\ lw_i < Len(train_data)
    /\ LET data_point == train_data[lw_i + 1]
           knn_instance == HeldOutKnn(lw_i)
       IN  /\ kd_tree' = knn_instance.kd_tree
           /\ data' = knn_instance.data
           /\ weights' = knn_instance.weights
           /\ fitted' = TRUE
           /\ \E o \in predict(knn_instance, data_point.features) :
                /\ last' = o
                /\ lw_preds' = Append(lw_preds, o)
                /\ IF o.status = "panic"
                   THEN /\ lw_pc' = "panic"
                        /\ UNCHANGED <<lw_i, lw_weights>>
                   ELSE /\ lw_weights' = Append(lw_weights,
                                            LowessWeight(o, data_point.label))
                        /\ lw_i' = lw_i + 1
                        /\ lw_pc' = "loop"
    /\ UNCHANGED <<k, radius, kernel, window, metric, train_data>>

\* the loop is over: weights is returned
LowessReturn ==
    /\ lw_pc = "loop"
    /\ lw_i = Len(train_data)
    /\ lw_pc' = "done"
    /\ UNCHANGED <<lw_i, lw_weights, lw_preds, train_data>>
    /\ UNCHANGED knn_vars

NextLowess == LowessStep \/ LowessReturn

SpecLowess == InitLowess /\ [][NextLowess]_vars

\* ==================================================================== claims
HasNaN(v) == \E i \in DOMAIN v : IsNaN(v[i])

\* C1: a fit call given a weights vector whose length differs from the number
\* of samples fails with a configuration error and changes neither the
\* dataset, nor the weights, nor the index.
C1_MismatchedWeightsRejected ==
    [][(last'.op = "fit" /\ last'.mismatch)
        => (last'.status = "config_error"
            /\ UNCHANGED <<data, weights, kd_tree>>)]_vars

\* C2: after any sequence of fit calls the index holds exactly one entry per
\* sample of the latest dataset, under that sample's position, and nothing
\* from an earlier fit.
C2_IndexIsLatestDataset ==
    fitted =>
        /\ Len(kd_tree) = Len(data)
        /\ \A i \in 1..Len(data) :
            kd_tree[i] = [point |-> data[i].features, item |-> i - 1]

\* C3: with radius > 0 and k >= 1, predict on a fitted classifier returns a
\* label or fails with the no-neighbours error, the latter exactly when no
\* neighbour was retrieved; it never aborts.
C3_PredictOnlyFailsWithoutNeighbours ==
    (last.op = "predict" /\ fitted /\ radius > 0 /\ k >= 1) =>
        /\ last.status \in {"ok", "err"}
        /\ (last.status = "err") <=> (Len(last.indices) = 0)

\* C4: two predict calls in a row with the same query on the unchanged
\* classifier return the same label, also when two labels score the same.
C4_PredictDeterministic ==
    [][(/\ last.op = "predict" /\ last.status = "ok"
        /\ last'.op = "predict" /\ last'.status = "ok"
        /\ last'.x = last.x)
        => last'.label = last.label]_vars

\* C5: lowess never aborts: a held-out predict that finds no neighbours gives
\* that sample the weight 0 and the loop goes on to return one weight per
\* sample, for every dataset size (one sample included) and both windows.
\* (Taken for radius > 0 and k >= 1, so that nothing else is wrong with the
\* call.)
C5_LowessNeverAborts ==
    (radius > 0 /\ k >= 1) =>
        /\ lw_pc # "panic"
        /\ \A i \in 1..Len(lw_weights) :
            lw_preds[i].status = "err" => lw_weights[i] = 0
        /\ lw_pc = "done" => Len(lw_weights) = Len(train_data)

\* train_data with only position i (counted from 1) left out
WithoutPosition(i) ==
    [j \in 1..(Len(train_data) - 1) |->
        IF j < i THEN train_data[j] ELSE train_data[j + 1]]

TrueDistanceAtMost(m, native, r) ==
    IF m = "SquaredEuclidean" THEN native <= r * r ELSE native <= r

\* C7: under Fixed, for every metric and radius > 0, every neighbour predict
\* retrieves is at a true metric distance of at most radius from the query.
C7_FixedNeighboursWithinRadius ==
    (last.op = "predict" /\ window = "Fixed" /\ radius > 0) =>
        \A i \in 1..Len(last.native) :
            TrueDistanceAtMost(metric, last.native[i], radius)

\* C8: under Unfixed, when the fitted dataset has at least k samples, predict
\* works on exactly k neighbours, at strictly ascending distances and with
\* pairwise distinct sample ids.
C8_ExactlyKDistinctNeighbours ==
    (last.op = "predict" /\ window = "Unfixed" /\ fitted
        /\ k >= 1 /\ Len(data) >= k) =>
        /\ Len(last.indices) = k
        /\ \A i \in 1..(Len(last.native) - 1) :
            last.native[i] < last.native[i + 1]
        /\ \A i, j \in 1..Len(last.indices) :
            i # j => last.indices[i] # last.indices[j]

\* C9: under Unfixed, when the farthest retrieved neighbour is at distance 0,
\* no normalised distance, kernel value or score of the call is NaN.
C9_NoNaNAtZeroDistance ==
    (/\ last.op = "predict" /\ window = "Unfixed"
     /\ Len(last.native) > 0
     /\ last.native[Len(last.native)] = 0) =>
        /\ ~HasNaN(last.adjusted)
        /\ ~HasNaN(last.kernel_distances)
        /\ ~HasNaN(last.scores)

\* C10: predict on a classifier fit was never called on aborts, under both
\* windows; it never comes back as the no-neighbours error.  (Taken for
\* radius > 0 and k >= 1, so that nothing else is wrong with the call.)
C10_PredictBeforeFitIsFatal ==
    (last.op = "predict" /\ ~fitted /\ radius > 0 /\ k >= 1)
        => last.status = "panic"

\* C11: a classifier built with a radius that is not positive, or with k = 0,
\* is turned away when it is built or fitted, so no predict call runs with
\* radius <= 0 under Fixed or with k = 0 under Unfixed.  (Taken for a predict
\* that follows a fit, so that building and fitting both had their chance.)
C11_BadHyperparametersNeverPredict ==
    (last.op = "predict" /\ fitted) =>
        /\ window = "Fixed" => radius > 0
        /\ window = "Unfixed" => k >= 1

\* C12: a predict call, whether it returns a label, fails or aborts, leaves
\* the classifier's dataset, weights, index contents and hyperparameters as
\* they were; so does any number of them.
C12_PredictLeavesClassifierUnchanged ==
    [][last'.op = "predict" =>
        UNCHANGED <<data, weights, kd_tree, k, radius, kernel, window, metric>>]_vars

\* predict has returned a label from a classifier holding two samples
C12_Witness ==
    /\ last.op = "predict"
    /\ last.status = "ok"
    /\ Len(data) = 2
    /\ Len(weights) = 2
    /\ Len(kd_tree) = 2

\* what neighbour i of the latest predict adds to its label's score: the
\* kernel of its normalised distance times the weight stored at its own
\* position of the dataset
VoteOf(i) ==
    FMul(Kernel(kernel, last.adjusted[i]), weights[last.indices[i] + 1])

RECURSIVE SumOfVotes(_)
SumOfVotes(S) ==
    IF S = {} THEN 0
    ELSE LET i == CHOOSE j \in S : TRUE
         IN  FAdd(VoteOf(i), SumOfVotes(S \ {i}))

\* the neighbours of the latest predict that carry the label
Carrying(label) ==
    {i \in 1..Len(last.indices) : data[last.indices[i] + 1].label = label}

\* the labels some neighbour of the latest predict carries
Carried == {l \in Diagnosis : Carrying(l) # {}}

\* C13: when predict returns a label, some retrieved neighbour carries it and
\* no other carried label has a greater score, a label's score being the sum,
\* over the neighbours carrying it, of kernel(u) times the weight stored at
\* the neighbour's dataset position.
C13_LabelHasMaximalScore ==
    (last.op = "predict" /\ last.status = "ok") =>
        /\ last.label \in Carried
        /\ \A l \in Carried :
            /\ last.scores[l] = SumOfVotes(Carrying(l))
            /\ l # last.label =>
                /\ Finite(SumOfVotes(Carrying(l)))
                /\ Finite(SumOfVotes(Carrying(last.label)))
                /\ SumOfVotes(Carrying(last.label)) >= SumOfVotes(Carrying(l))

\* predict has returned the label of the farther of two neighbours, the
\* nearer one carrying the other label and the weight 0
C13_Witness ==
    /\ last.op = "predict"
    /\ last.status = "ok"
    /\ Len(last.indices) = 2
    /\ Carried = Diagnosis
    /\ last.native[1] < last.native[2]
    /\ weights[last.indices[1] + 1] = 0
    /\ weights[last.indices[2] + 1] = ONE
    /\ last.label = data[last.indices[2] + 1].label
    /\ SumOfVotes(Carrying(last.label)) > 0

\* the metric's true distance on the grid, given its native value: the root
\* for SquaredEuclidean, which accumulates squares, and the native value
\* itself for Manhattan and Chebyshev
TrueDistance(m, native) ==
    IF m = "SquaredEuclidean" THEN FSqrt(native) ELSE native * SCALE

\* the largest true distance among the neighbours of the latest predict
FarthestTrueDistance ==
    LET ds == {TrueDistance(metric, last.native[i]) : i \in 1..Len(last.native)}
    IN  CHOOSE d \in ds : \A e \in ds : e <= d

\* C14: for every metric, the normalised distance predict hands to the kernel
\* is the neighbour's true metric distance divided by radius under Fixed and
\* by the largest true distance among the retrieved neighbours under Unfixed;
\* the root is taken for SquaredEuclidean only.  (Taken for radius > 0 and
\* k >= 1 on a fitted classifier.)
C14_NormalisedTrueDistance ==
    (/\ last.op = "predict" /\ fitted /\ radius > 0 /\ k >= 1
     /\ Len(last.adjusted) = Len(last.native)) =>
        \A i \in 1..Len(last.adjusted) :
            last.adjusted[i] =
                FDiv(TrueDistance(metric, last.native[i]),
                     IF window = "Fixed" THEN radius * SCALE
                     ELSE FarthestTrueDistance)

\* the kernels that are 0 from u = 1 on
CompactKernels == {"uniform", "triangular", "epanechnikov"}

\* C15: under Unfixed with a compact-support kernel and the farthest
\* retrieved neighbour at a distance > 0, that neighbour has u = 1 and its
\* kernel value is 0, so it adds 0 to its label's score whatever its weight;
\* with k = 1 predict returns the single neighbour's label, every score being
\* 0, and does not fail.  (Taken for a weights vector as long as the
\* dataset.)
C15_FarthestNeighbourVotesZero ==
    (/\ last.op = "predict" /\ window = "Unfixed" /\ kernel \in CompactKernels
     /\ k >= 1 /\ Len(weights) = Len(data)
     /\ Len(last.native) > 0
     /\ last.native[Len(last.native)] > 0) =>
        /\ last.adjusted[Len(last.native)] = ONE
        /\ Kernel(kernel, last.adjusted[Len(last.native)]) = 0
        /\ k = 1 =>
            /\ last.status = "ok"
            /\ last.label = data[last.indices[1] + 1].label
            /\ \A l \in DOMAIN last.scores : last.scores[l] = 0

=============================================================================
